---- MODULE Spec2Model ----
(***************************************************************************)
(* A model of the two maintenance scripts of sabos:                        *)
(*   scripts/apply-sysroot-patches.py  (the patch engine and its           *)
(*                                      line-insertion primitives)          *)
(*   scripts/check-syscall-numbers.py  (the syscall number checker)        *)
(*                                                                         *)
(* File contents are TLA+ strings, read character by character: a line     *)
(* break is the character "\n", so splitting, joining, substring search    *)
(* and brace counting are computed as Python computes them.                *)
(***************************************************************************)
EXTENDS Integers, Sequences, FiniteSets, TLC

VARIABLES
    \* apply-sysroot-patches.py, one or more runs of main() on one source tree
    argc,          \* len(sys.argv) of the run
    files,         \* the source tree: table index -> [present, content]
    entry,         \* position of main's for loop in the patch table (1-based)
    status,        \* the status lines printed so far in this run
    exit_code,     \* the run's exit code, -1 while it runs
    pc,            \* "main" | "loop" | "done" | "crashed"
    run,           \* number of the current run
    prev_files,    \* the source tree as the previous run left it
    prev_status,   \* the status lines of the previous run
    \* one call of a text -> text function of apply-sysroot-patches.py
    call,          \* [fn, content, target_line, insertion]
    returned,      \* whether the call has returned
    ret,           \* its return value
    alloc_idx,     \* patch_alloc_mod's local insert_idx when it returned
    \* check-syscall-numbers.py, one run of main()
    canonical_file,  \* CANONICAL_FILE: [present, content]
    pal_dir,         \* PAL_DIR: [present, entries: name -> content]
    cpc,             \* "load" | "check" | "report" | "exit"
    canonical,       \* the dict load_canonical returned
    errors,          \* the list check_pal_files builds
    fidx,            \* position of check_pal_files' loop over the sorted paths
    stdout,          \* the summary lines main printed
    check_exit       \* the run's exit code, -1 while it runs

patchVars == <<argc, files, entry, status, exit_code, pc, run, prev_files, prev_status>>
callVars  == <<call, returned, ret, alloc_idx>>
checkVars == <<canonical_file, pal_dir, cpc, canonical, errors, fidx, stdout, check_exit>>
vars      == <<patchVars, callVars, checkVars>>

\* The variables of a tool that a specification does not run.
PatchIdle ==
    /\ argc = 0 /\ files = <<>> /\ entry = 0 /\ status = <<>> /\ exit_code = -1
    /\ pc = "idle" /\ run = 0 /\ prev_files = <<>> /\ prev_status = <<>>

CallIdle ==
    /\ call = [fn |-> "none", content |-> "", target_line |-> "", insertion |-> ""]
    /\ returned = FALSE /\ ret = "" /\ alloc_idx = -1

CheckIdle ==
    /\ canonical_file = [present |-> FALSE, content |-> ""]
    /\ pal_dir = [present |-> FALSE, entries |-> <<>>]
    /\ cpc = "idle" /\ canonical = <<>> /\ errors = <<>> /\ fidx = 0
    /\ stdout = <<>> /\ check_exit = -1

(***************************************************************************)
(* Python string primitives.                                               *)
(***************************************************************************)

\* s[i] for a 1-based i.
CharAt(s, i) == SubSeq(s, i, i)

\* needle in s
Contains(needle, s) ==
    \E i \in 1..(Len(s) - Len(needle) + 1) : SubSeq(s, i, i + Len(needle) - 1) = needle

\* The 1-based index of the first "\n" of s at or after i, or 0.
RECURSIVE FindNewline(_, _)
FindNewline(s, i) ==
    IF i > Len(s) THEN 0
    ELSE IF CharAt(s, i) = "\n" THEN i
    ELSE FindNewline(s, i + 1)

\* A mutant of Split: str.splitlines(), which drops a final empty line.
RECURSIVE SplitDropsLastEmpty(_)
SplitDropsLastEmpty(s) ==
    LET nl == FindNewline(s, 1)
    IN  IF nl = 0 THEN (IF s = "" THEN <<>> ELSE <<s>>)
        ELSE <<SubSeq(s, 1, nl - 1)>> \o SplitDropsLastEmpty(SubSeq(s, nl + 1, Len(s)))

\* s.split("\n")
RECURSIVE Split(_)
Split(s) ==
    LET nl == FindNewline(s, 1)
    IN  IF nl = 0 THEN <<s>>
        ELSE <<SubSeq(s, 1, nl - 1)>> \o Split(SubSeq(s, nl + 1, Len(s)))

\* "\n".join(lines)
RECURSIVE Join(_)
Join(lines) ==
    IF Len(lines) = 0 THEN ""
    ELSE IF Len(lines) = 1 THEN lines[1]
    ELSE lines[1] \o "\n" \o Join(Tail(lines))

\* line.count(ch) for a one-character ch.
Count(line, ch) == Cardinality({i \in 1..Len(line) : CharAt(line, i) = ch})

(***************************************************************************)
(* Line-insertion primitives.                                              *)
(***************************************************************************)

\* The for loop of insert_before_line, from line i (1-based) on.
RECURSIVE InsertBeforeLoop(_, _, _, _, _, _)
InsertBeforeLoop(lines, i, inserted, result, target_line, insertion) ==
    IF i > Len(lines) THEN result
    ELSE LET line == lines[i]
             hit  == ~inserted /\ Contains(target_line, line)
             r1   == IF hit THEN Append(result, insertion) ELSE result
         IN  InsertBeforeLoop(lines, i + 1, inserted \/ hit, Append(r1, line),
                              target_line, insertion)

\* A mutant of insert_before_line: the inserted flag is never set.
RECURSIVE InsertBeforeEveryLoop(_, _, _, _, _)
InsertBeforeEveryLoop(lines, i, result, target_line, insertion) ==
    IF i > Len(lines) THEN result
    ELSE LET line == lines[i]
             r1   == IF Contains(target_line, line)
                     THEN Append(result, insertion) ELSE result
         IN  InsertBeforeEveryLoop(lines, i + 1, Append(r1, line), target_line, insertion)

insert_before_every_line(content, target_line, insertion) ==
    Join(InsertBeforeEveryLoop(Split(content), 1, <<>>, target_line, insertion))

insert_before_line(content, target_line, insertion) ==
    Join(InsertBeforeLoop(Split(content), 1, FALSE, <<>>, target_line, insertion))

\* The for loop of insert_after_line, from line i (1-based) on.
RECURSIVE InsertAfterLoop(_, _, _, _, _, _)
InsertAfterLoop(lines, i, inserted, result, target_line, insertion) ==
    IF i > Len(lines) THEN result
    ELSE LET line == lines[i]
             hit  == ~inserted /\ Contains(target_line, line)
             r1   == Append(result, line)
         IN  InsertAfterLoop(lines, i + 1, inserted \/ hit,
                             IF hit THEN Append(r1, insertion) ELSE r1,
                             target_line, insertion)

insert_after_line(content, target_line, insertion) ==
    Join(InsertAfterLoop(Split(content), 1, FALSE, <<>>, target_line, insertion))

(***************************************************************************)
(* Patch functions.                                                        *)
(***************************************************************************)

patch_pal_mod(content) ==
    LET sabos_branch == "    target_os = \"sabos\" => {\n"
                        \o "        mod sabos;\n"
                        \o "        pub use self::sabos::*;\n"
                        \o "    }"
    IN  insert_before_line(content, "    _ => {", sabos_branch)

\* line.count("{") - line.count("}")
BraceDelta(line) == Count(line, "{") - Count(line, "}")

\* The first for loop of patch_alloc_mod, from line i (0-based, as enumerate
\* counts) on: the value insert_idx has when the loop ends (-1: never set).
RECURSIVE AllocScan(_, _, _, _)
AllocScan(lines, i, in_cfg_select, cfg_select_depth) ==
    IF i >= Len(lines) THEN -1
    ELSE LET line   == lines[i + 1]
             opens  == Contains("cfg_select!", line) /\ ~in_cfg_select
             inside == in_cfg_select \/ opens
             depth0 == IF opens THEN 0 ELSE cfg_select_depth
             depth1 == IF inside THEN depth0 + BraceDelta(line) ELSE depth0
         IN  IF inside /\ depth1 <= 0 THEN i
             ELSE AllocScan(lines, i + 1, inside, depth1)

\* A mutant of AllocInsertIdx: the scan stops at the first line with a "}".
RECURSIVE AllocScanFirstClose(_, _, _)
AllocScanFirstClose(lines, i, in_cfg_select) ==
    IF i >= Len(lines) THEN -1
    ELSE LET line   == lines[i + 1]
             inside == in_cfg_select \/ Contains("cfg_select!", line)
         IN  IF inside /\ Count(line, "}") > 0 THEN i
             ELSE AllocScanFirstClose(lines, i + 1, inside)

AllocInsertIdxFirstClose(lines) == AllocScanFirstClose(lines, 0, FALSE)

\* A mutant of AllocInsertIdx: the line of the opening token is not counted.
RECURSIVE AllocScanSkipsOpener(_, _, _, _)
AllocScanSkipsOpener(lines, i, in_cfg_select, cfg_select_depth) ==
    IF i >= Len(lines) THEN -1
    ELSE LET line   == lines[i + 1]
             opens  == Contains("cfg_select!", line) /\ ~in_cfg_select
             depth1 == IF in_cfg_select THEN cfg_select_depth + BraceDelta(line) ELSE 0
         IN  IF in_cfg_select /\ depth1 <= 0 THEN i
             ELSE AllocScanSkipsOpener(lines, i + 1, in_cfg_select \/ opens, depth1)

AllocInsertIdxSkipsOpener(lines) == AllocScanSkipsOpener(lines, 0, FALSE, 0)

\* insert_idx of patch_alloc_mod after its first loop.
AllocInsertIdx(lines) == AllocScan(lines, 0, FALSE, 0)

\* The second for loop of patch_alloc_mod, from line i (0-based) on.
RECURSIVE AllocInsertLoop(_, _, _, _)
AllocInsertLoop(lines, i, insert_idx, result) ==
    IF i >= Len(lines) THEN result
    ELSE LET r1 == IF i = insert_idx
                   THEN result \o << "    target_os = \"sabos\" => {",
                                     "        mod sabos;",
                                     "    }" >>
                   ELSE result
         IN  AllocInsertLoop(lines, i + 1, insert_idx, Append(r1, lines[i + 1]))

patch_alloc_mod(content) ==
    LET lines      == Split(content)
        insert_idx == AllocInsertIdx(lines)
    IN  IF insert_idx < 0 THEN content
        ELSE Join(AllocInsertLoop(lines, 0, insert_idx, <<>>))

patch_stdio_mod(content) ==
    LET sabos_branch == "    target_os = \"sabos\" => {\n"
                        \o "        mod sabos;\n"
                        \o "        pub use sabos::*;\n"
                        \o "    }"
    IN  insert_before_line(content, "    _ => {", sabos_branch)

patch_thread_local_mod(content) ==
    LET content1 == insert_after_line(content,
                                      "        target_os = \"vexos\",",
                                      "        target_os = \"sabos\",")
    IN  insert_after_line(content1,
                          "            target_os = \"vexos\",",
                          "            target_os = \"sabos\",")

patch_env_consts(content) ==
    LET sabos_entry == "#[cfg(target_os = \"sabos\")]\n"
                       \o "pub mod os {\n"
                       \o "    pub const FAMILY: &str = \"\";\n"
                       \o "    pub const OS: &str = \"sabos\";\n"
                       \o "    pub const DLL_PREFIX: &str = \"\";\n"
                       \o "    pub const DLL_SUFFIX: &str = \"\";\n"
                       \o "    pub const DLL_EXTENSION: &str = \"\";\n"
                       \o "    pub const EXE_SUFFIX: &str = \".elf\";\n"
                       \o "    pub const EXE_EXTENSION: &str = \"elf\";\n"
                       \o "}\n"
    IN  insert_before_line(content,
                           "// The fallback when none of the other gates match.",
                           sabos_entry)

patch_io_error_mod(content) ==
    insert_after_line(content, "        target_os = \"zkvm\",",
                               "        target_os = \"sabos\",")

patch_random_mod(content) ==
    LET sabos_branch == "    target_os = \"sabos\" => {\n"
                        \o "        mod sabos;\n"
                        \o "        pub use sabos::fill_bytes;\n"
                        \o "    }"
    IN  insert_before_line(content, "    _ => {}", sabos_branch)

patch_fs_mod(content) ==
    LET sabos_branch == "    target_os = \"sabos\" => {\n"
                        \o "        mod sabos;\n"
                        \o "        use sabos as imp;\n"
                        \o "    }"
    IN  insert_before_line(content, "    _ => {", sabos_branch)

patch_os_mod(content) ==
    LET sabos_entry == "#[cfg(target_os = \"sabos\")]\n"
                       \o "pub mod sabos;"
    IN  insert_after_line(content, "pub mod xous;", sabos_entry)

(***************************************************************************)
(* The patch engine: patch_file and main.                                  *)
(***************************************************************************)

\* The table main builds: (rel_path, marker, patch_fn).
patches ==
    << [rel_path |-> "sys/pal/mod.rs", marker |-> "target_os = \"sabos\"",
        patch_fn |-> "patch_pal_mod"],
       [rel_path |-> "sys/alloc/mod.rs", marker |-> "target_os = \"sabos\"",
        patch_fn |-> "patch_alloc_mod"],
       [rel_path |-> "sys/stdio/mod.rs", marker |-> "target_os = \"sabos\"",
        patch_fn |-> "patch_stdio_mod"],
       [rel_path |-> "sys/thread_local/mod.rs", marker |-> "target_os = \"sabos\"",
        patch_fn |-> "patch_thread_local_mod"],
       [rel_path |-> "sys/env_consts.rs", marker |-> "target_os = \"sabos\"",
        patch_fn |-> "patch_env_consts"],
       [rel_path |-> "sys/io/error/mod.rs", marker |-> "target_os = \"sabos\"",
        patch_fn |-> "patch_io_error_mod"],
       [rel_path |-> "sys/random/mod.rs", marker |-> "target_os = \"sabos\"",
        patch_fn |-> "patch_random_mod"],
       [rel_path |-> "sys/fs/mod.rs", marker |-> "target_os = \"sabos\"",
        patch_fn |-> "patch_fs_mod"],
       [rel_path |-> "os/mod.rs", marker |-> "target_os = \"sabos\"",
        patch_fn |-> "patch_os_mod"] >>

\* patch_fn(content) for the function the table names.
ApplyPatchFn(patch_fn, content) ==
    CASE patch_fn = "patch_pal_mod"          -> patch_pal_mod(content)
      [] patch_fn = "patch_alloc_mod"        -> patch_alloc_mod(content)
      [] patch_fn = "patch_stdio_mod"        -> patch_stdio_mod(content)
      [] patch_fn = "patch_thread_local_mod" -> patch_thread_local_mod(content)
      [] patch_fn = "patch_env_consts"       -> patch_env_consts(content)
      [] patch_fn = "patch_io_error_mod"     -> patch_io_error_mod(content)
      [] patch_fn = "patch_random_mod"       -> patch_random_mod(content)
      [] patch_fn = "patch_fs_mod"           -> patch_fs_mod(content)
      [] patch_fn = "patch_os_mod"           -> patch_os_mod(content)

\* A mutant of patch_file: the check_marker test is missing.
patch_file_without_marker_check(file, check_marker, patch_fn) ==
    IF ~file.present THEN [outcome |-> "raise", content |-> file.content]
    ELSE LET new_content == ApplyPatchFn(patch_fn, file.content)
         IN  IF new_content = file.content
             THEN [outcome |-> "WARN", content |-> file.content]
             ELSE [outcome |-> "PATCH", content |-> new_content]

\* A mutant of patch_file: the file is opened for writing before the
\* no-effect test, which truncates it.
patch_file_truncates_on_warn(file, check_marker, patch_fn) ==
    IF ~file.present THEN [outcome |-> "raise", content |-> file.content]
    ELSE IF Contains(check_marker, file.content)
    THEN [outcome |-> "SKIP", content |-> file.content]
    ELSE LET new_content == ApplyPatchFn(patch_fn, file.content)
         IN  IF new_content = file.content
             THEN [outcome |-> "WARN", content |-> ""]
             ELSE [outcome |-> "PATCH", content |-> new_content]

\* patch_file on a file of the tree: the status it prints and the content
\* the file has afterwards. open() of a missing or unreadable file raises
\* OSError, which patch_file does not catch: outcome "raise".
patch_file(file, check_marker, patch_fn) ==
    IF ~file.present THEN [outcome |-> "raise", content |-> file.content]
    ELSE IF Contains(check_marker, file.content)
    THEN [outcome |-> "SKIP", content |-> file.content]
    ELSE LET new_content == ApplyPatchFn(patch_fn, file.content)
         IN  IF new_content = file.content
             THEN [outcome |-> "WARN", content |-> file.content]
             ELSE [outcome |-> "PATCH", content |-> new_content]

\* Runs of the tool on one tree.
MaxRuns == 2

\* The upstream text of each target file, cut down to the lines around the
\* anchors.
Upstream ==
    << "cfg_select! {\n    unix => {\n        mod unix;\n    }\n    _ => {\n        mod unsupported;\n    }\n}\n",
       "cfg_select! {\n    unix => {\n        mod unix;\n    }\n    target_os = \"zkvm\" => {\n        mod zkvm;\n    }\n}\n",
       "cfg_select! {\n    _ => {\n        mod unsupported;\n    }\n}\n",
       "    any(\n        target_os = \"vexos\",\n    ) => {\n        any(\n            target_os = \"vexos\",\n        ) => {\n",
       "pub mod os {\n}\n\n// The fallback when none of the other gates match.\n#[else]\n",
       "    any(\n        target_os = \"zkvm\",\n    ) => {\n",
       "cfg_select! {\n    _ => {}\n}\n",
       "cfg_select! {\n    _ => {\n        mod unsupported;\n    }\n}\n",
       "pub mod xous;\n" >>

\* The states a target file may be in before the first run: as upstream, with
\* the anchor lines twice, without any anchor, empty, mentioning the marker
\* already, or missing.
FileStates(k) ==
    << [present |-> TRUE,  content |-> Upstream[k]],
       [present |-> TRUE,  content |-> Upstream[k] \o Upstream[k]],
       [present |-> TRUE,  content |-> "// no anchor here {\n}\n"],
       [present |-> TRUE,  content |-> ""],
       [present |-> TRUE,  content |-> "// target_os = \"sabos\"\n" \o Upstream[k]],
       [present |-> FALSE, content |-> ""] >>

\* Source trees: upstream, but for at most one file, which is in a state of
\* its own or holds the text of another target; and trees whose files go
\* through the states in turn.
Trees ==
    { [k \in 1..Len(patches) |->
          IF k = j THEN FileStates(i)[n] ELSE FileStates(k)[1]] :
      j \in 1..Len(patches), i \in 1..Len(patches), n \in 1..Len(FileStates(1)) }
    \cup
    { [k \in 1..Len(patches) |-> FileStates(k)[((k + o) % Len(FileStates(k))) + 1]] :
      o \in 1..Len(FileStates(1)) }

InitPatch ==
    /\ argc \in {1, 2, 3}
    /\ files \in Trees
    /\ entry = 1 /\ status = <<>> /\ exit_code = -1 /\ pc = "main" /\ run = 1
    /\ prev_files = files /\ prev_status = <<>>
    /\ CallIdle /\ CheckIdle

\* main, len(sys.argv) != 2: the usage message and sys.exit(1).
MainUsage ==
    /\ pc = "main" /\ argc # 2
    /\ exit_code' = 1 /\ pc' = "done"
    /\ UNCHANGED <<argc, files, entry, status, run, prev_files, prev_status,
                   callVars, checkVars>>

\* main, one argument: the table is built and the loop begins.
MainStart ==
    /\ pc = "main" /\ argc = 2
    /\ pc' = "loop" /\ entry' = 1
    /\ UNCHANGED <<argc, files, status, exit_code, run, prev_files, prev_status,
                   callVars, checkVars>>

\* One iteration of main's loop: patch_file returns.
PatchEntry ==
    /\ pc = "loop" /\ entry <= Len(patches)
    /\ LET r == patch_file(files[entry], patches[entry].marker, patches[entry].patch_fn)
       IN  /\ r.outcome # "raise"
           /\ files' = [files EXCEPT ![entry].content = r.content]
           /\ status' = Append(status, r.outcome)
    /\ entry' = entry + 1
    /\ UNCHANGED <<argc, exit_code, pc, run, prev_files, prev_status,
                   callVars, checkVars>>

\* One iteration of main's loop: patch_file raises, nothing catches it, and
\* the interpreter ends the run with a traceback and exit code 1.
PatchEntryRaises ==
    /\ pc = "loop" /\ entry <= Len(patches)
    /\ patch_file(files[entry], patches[entry].marker,
                  patches[entry].patch_fn).outcome = "raise"
    /\ pc' = "crashed" /\ exit_code' = 1
    /\ UNCHANGED <<argc, files, entry, status, run, prev_files, prev_status,
                   callVars, checkVars>>

\* main returns after the last entry: exit code 0.
MainReturn ==
    /\ pc = "loop" /\ entry > Len(patches)
    /\ pc' = "done" /\ exit_code' = 0
    /\ UNCHANGED <<argc, files, entry, status, run, prev_files, prev_status,
                   callVars, checkVars>>

\* The operator runs the tool again, with the same argument, on the tree as
\* the last run left it.
Rerun ==
    /\ pc \in {"done", "crashed"} /\ argc = 2 /\ run < MaxRuns
    /\ prev_files' = files /\ prev_status' = status
    /\ status' = <<>> /\ entry' = 1 /\ exit_code' = -1 /\ pc' = "main"
    /\ run' = run + 1
    /\ UNCHANGED <<argc, files, callVars, checkVars>>

Next ==
    \/ MainUsage
    \/ MainStart
    \/ PatchEntry
    \/ PatchEntryRaises
    \/ MainReturn
    \/ Rerun

Spec == InitPatch /\ [][Next]_vars

(***************************************************************************)
(* Properties of the patch engine.                                         *)
(***************************************************************************)

\* C1 as claimed: for every descriptor and every initial content, a second
\* patch_file on the same file leaves the content the first one left, and
\* the second run reports SKIP.
C1_SecondRunSkips ==
    run >= 2 =>
        \A k \in 1..Len(status) :
            /\ files[k] = prev_files[k]
            /\ status[k] = "SKIP"

\* C1 as amended: a second patch_file on the same file leaves the content
\* the first one left; it reports SKIP when the first reported PATCH or
\* SKIP, and WARN again when the first reported WARN (the patch had no
\* effect, so there is still no marker in the file).
C1_SecondRunChangesNothing ==
    run >= 2 =>
        \A k \in 1..Len(status) :
            /\ files[k] = prev_files[k]
            /\ status[k] = IF prev_status[k] = "WARN" THEN "WARN" ELSE "SKIP"

\* A second run has ended on a tree in which the first run patched every
\* file.
C1_Witness ==
    /\ run = 2 /\ pc = "done"
    /\ Len(status) = Len(patches)
    /\ \A k \in 1..Len(patches) : prev_status[k] = "PATCH" /\ status[k] = "SKIP"

\* C2: patch_file overwrites the file only when it reports PATCH. When the
\* marker is a substring of the text it reports SKIP, when the transform
\* returns its input it reports WARN, and in both cases every file is as
\* before; when it reports PATCH the file holds transform(old content) and
\* every other file is as before.
C2_WriteOnlyWhenPatched ==
    [][(pc = "loop" /\ entry' = entry + 1) =>
          LET old         == files[entry].content
              transformed == ApplyPatchFn(patches[entry].patch_fn, old)
              printed     == status'[Len(status')]
          IN  /\ Len(status') = Len(status) + 1
              /\ Contains(patches[entry].marker, old) => printed = "SKIP"
              /\ (~Contains(patches[entry].marker, old) /\ transformed = old)
                     => printed = "WARN"
              /\ printed \in {"SKIP", "WARN", "PATCH"}
              /\ printed \in {"SKIP", "WARN"} => files' = files
              /\ printed = "PATCH" =>
                     /\ transformed # old
                     /\ files' = [files EXCEPT ![entry].content = transformed]
      ]_vars

\* One run has printed all three statuses: a file with the marker was
\* skipped, an anchorless one warned about, the others patched.
C2_Witness ==
    /\ run = 1
    /\ \E i, j, k \in 1..Len(status) :
           status[i] = "SKIP" /\ status[j] = "WARN" /\ status[k] = "PATCH"

\* C8: a run with exactly one argument lets no exception escape, whatever
\* the state of the tree: it prints one status line per table entry and
\* exits with code 0.
C8_NoExceptionEscapes ==
    (argc = 2 /\ pc \in {"done", "crashed"}) =>
        /\ pc = "done"
        /\ exit_code = 0
        /\ Len(status) = Len(patches)
        /\ \A k \in 1..Len(status) : status[k] \in {"SKIP", "PATCH", "WARN"}

(***************************************************************************)
(* Calls of the text -> text functions on bounded inputs.                  *)
(***************************************************************************)

\* Longest texts (in lines) handed to the insertion primitives, to
\* patch_alloc_mod and to patch_thread_local_mod.
MaxLines == 3
MaxBlockLines == 4
MaxCfgLines == 3

\* All texts of 1..n lines drawn from pool.
Texts(pool, n) == {Join(ls) : ls \in UNION {[1..k -> pool] : k \in 1..n}}

PlainLines == {"", "ab", "b", "xaby", "c"}
Needles    == {"ab", "b", "z"}
Insertions == {"I", "ab", "I\nJ"}

BlockLines ==
    {"cfg_select! {", "a => {", "}", "mod a;", "cfg_select!", "} b {", "} cfg_select! {"}

Vexos8  == "        target_os = \"vexos\","
Vexos12 == "            target_os = \"vexos\","
Sabos8  == "        target_os = \"sabos\","
Sabos12 == "            target_os = \"sabos\","
CfgLines == {Vexos8, Vexos12, "any(", "target_os = \"vexos\","}

Calls ==
    [fn : {"insert_before_line", "insert_after_line"},
     content : Texts(PlainLines, MaxLines),
     target_line : Needles, insertion : Insertions]
    \cup [fn : {"patch_alloc_mod"}, content : Texts(BlockLines, MaxBlockLines),
          target_line : {""}, insertion : {""}]
    \cup [fn : {"patch_alloc_mod"}, content : Texts(PlainLines, MaxLines),
          target_line : {""}, insertion : {""}]
    \cup [fn : {"patch_thread_local_mod"}, content : Texts(CfgLines, MaxCfgLines),
          target_line : {""}, insertion : {""}]

InitCall ==
    /\ call \in Calls
    /\ returned = FALSE /\ ret = "" /\ alloc_idx = -1
    /\ PatchIdle /\ CheckIdle

CallInsertBefore ==
    /\ ~returned /\ call.fn = "insert_before_line"
    /\ ret' = insert_before_line(call.content, call.target_line, call.insertion)
    /\ returned' = TRUE
    /\ UNCHANGED <<call, alloc_idx, patchVars, checkVars>>

CallInsertAfter ==
    /\ ~returned /\ call.fn = "insert_after_line"
    /\ ret' = insert_after_line(call.content, call.target_line, call.insertion)
    /\ returned' = TRUE
    /\ UNCHANGED <<call, alloc_idx, patchVars, checkVars>>

CallPatchAllocMod ==
    /\ ~returned /\ call.fn = "patch_alloc_mod"
    /\ ret' = patch_alloc_mod(call.content)
    /\ alloc_idx' = AllocInsertIdx(Split(call.content))
    /\ returned' = TRUE
    /\ UNCHANGED <<call, patchVars, checkVars>>

CallPatchThreadLocalMod ==
    /\ ~returned /\ call.fn = "patch_thread_local_mod"
    /\ ret' = patch_thread_local_mod(call.content)
    /\ returned' = TRUE
    /\ UNCHANGED <<call, alloc_idx, patchVars, checkVars>>

NextCall ==
    \/ CallInsertBefore
    \/ CallInsertAfter
    \/ CallPatchAllocMod
    \/ CallPatchThreadLocalMod

SpecCall == InitCall /\ [][NextCall]_vars

(***************************************************************************)
(* Properties of the line-insertion primitives.                            *)
(***************************************************************************)

\* The 1-based indices of the lines that contain needle.
MatchingLines(lines, needle) == {i \in 1..Len(lines) : Contains(needle, lines[i])}

\* The least element of a non-empty set of integers.
Least(S) == CHOOSE x \in S : \A y \in S : x <= y

\* lines with the entry x added after its first k lines.
InsertedAt(lines, k, x) == SubSeq(lines, 1, k) \o <<x>> \o SubSeq(lines, k + 1, Len(lines))

IsInsertCall == call.fn \in {"insert_before_line", "insert_after_line"}

\* C3: when at least one line contains the needle, insert_before_line returns
\* the input lines, in order and unchanged, with exactly one added entry, the
\* insertion, placed immediately before the first line containing the needle,
\* and insert_after_line the same with the entry immediately after that line;
\* later lines containing the needle get no insertion.
C3_FirstMatchOnly ==
    (returned /\ IsInsertCall) =>
        LET lines == Split(call.content)
            hits  == MatchingLines(lines, call.target_line)
        IN  hits # {} =>
                LET first == Least(hits)
                    k     == IF call.fn = "insert_before_line" THEN first - 1 ELSE first
                IN  ret = Join(InsertedAt(lines, k, call.insertion))

\* A call of insert_before_line has returned on a text with the needle on two
\* separate lines, the first of them not the first line of the text.
C3_Witness ==
    /\ returned /\ call.fn = "insert_before_line"
    /\ Cardinality(MatchingLines(Split(call.content), call.target_line)) >= 2
    /\ 1 \notin MatchingLines(Split(call.content), call.target_line)
    /\ ret # call.content

\* C4: when no line of the input contains the anchor, insert_before_line and
\* insert_after_line return the input exactly, character for character, and
\* patch_alloc_mod returns the input exactly when no line contains
\* "cfg_select!".
C4_NoOpWhenAnchorAbsent ==
    returned =>
        /\ (IsInsertCall /\ ~Contains(call.target_line, call.content))
               => ret = call.content
        /\ (call.fn = "patch_alloc_mod" /\ ~Contains("cfg_select!", call.content))
               => ret = call.content

\* A call has returned on an anchorless text that ends in a line break.
C4_Witness ==
    /\ returned /\ IsInsertCall
    /\ ~Contains(call.target_line, call.content)
    /\ Len(call.content) > 1
    /\ CharAt(call.content, Len(call.content)) = "\n"
    /\ ret = call.content

(***************************************************************************)
(* Properties of patch_alloc_mod's block scan.                             *)
(***************************************************************************)

\* The 1-based index of the first occurrence of sub in s at or after i, or 0.
RECURSIVE FindSub(_, _, _)
FindSub(s, sub, i) ==
    IF i + Len(sub) - 1 > Len(s) THEN 0
    ELSE IF SubSeq(s, i, i + Len(sub) - 1) = sub THEN i
    ELSE FindSub(s, sub, i + 1)

\* The index of the "}" that closes a block whose "{" precedes index i, read
\* character by character at nesting depth d, or 0 when it is never closed.
RECURSIVE ClosingBrace(_, _, _)
ClosingBrace(s, i, d) ==
    IF i > Len(s) THEN 0
    ELSE IF CharAt(s, i) = "{" THEN ClosingBrace(s, i + 1, d + 1)
    ELSE IF CharAt(s, i) = "}" THEN (IF d = 1 THEN i ELSE ClosingBrace(s, i + 1, d - 1))
    ELSE ClosingBrace(s, i + 1, d)

\* The 0-based number of the line that holds character i of s.
LineOf(s, i) == Count(SubSeq(s, 1, i - 1), "\n")

TokenAt(s) == FindSub(s, "cfg_select!", 1)
OpenAt(s)  == FindSub(s, "{", TokenAt(s) + Len("cfg_select!"))
CloseAt(s) == ClosingBrace(s, OpenAt(s) + 1, 1)

\* s holds a cfg_select! block laid out in lines: its "{" follows the token
\* on the token's line, no brace precedes that "{" on the line, the block is
\* closed, and no "{" follows the closing "}" on its line.
HasBlock(s) ==
    /\ TokenAt(s) > 0
    /\ OpenAt(s) > 0
    /\ LineOf(s, OpenAt(s)) = LineOf(s, TokenAt(s))
    /\ \A i \in 1..(OpenAt(s) - 1) :
           (LineOf(s, i) = LineOf(s, TokenAt(s))) => CharAt(s, i) \notin {"{", "}"}
    /\ CloseAt(s) > 0
    /\ \A i \in (CloseAt(s) + 1)..Len(s) :
           (LineOf(s, i) = LineOf(s, CloseAt(s))) => CharAt(s, i) # "{"

\* The block of s has a sub-block: a "}" inside it before its closing "}".
HasNestedBlock(s) ==
    /\ HasBlock(s)
    /\ \E i \in (OpenAt(s) + 1)..(CloseAt(s) - 1) :
           CharAt(s, i) = "}" /\ LineOf(s, i) < LineOf(s, CloseAt(s))

\* s holds a cfg_select! block with a nested sub-block, in any layout: the
\* token, a "{" after it, the "}" that closes it, and a "}" in between.
HasNestedBlockAnyLayout(s) ==
    /\ TokenAt(s) > 0
    /\ OpenAt(s) > 0
    /\ CloseAt(s) > 0
    /\ \E i \in (OpenAt(s) + 1)..(CloseAt(s) - 1) : CharAt(s, i) = "}"

\* ret is the content with the sabos branch added before its 0-based line n.
BranchInsertedBefore(n) ==
    ret = Join(SubSeq(Split(call.content), 1, n)
               \o << "    target_os = \"sabos\" => {",
                     "        mod sabos;",
                     "    }" >>
               \o SubSeq(Split(call.content), n + 1, Len(Split(call.content))))

\* C5 as claimed: for input with a cfg_select! block whose body has nested
\* sub-blocks, the line the scan of patch_alloc_mod detects is the line that
\* closes the outermost block, never one closing an inner sub-block, and the
\* sabos branch is inserted immediately before that line.
C5_OutermostClosingLineAnyLayout ==
    (returned /\ call.fn = "patch_alloc_mod" /\ HasNestedBlockAnyLayout(call.content)) =>
        LET closing == LineOf(call.content, CloseAt(call.content))
        IN  /\ alloc_idx = closing
            /\ BranchInsertedBefore(closing)

\* C5 as amended: for input with a cfg_select! block laid out in lines (its
\* "{" on the token's line, no brace before that "{" on the line, no "{"
\* after its closing "}" on that line), whatever sub-blocks its body nests,
\* the line the scan detects is the line that closes the outermost block,
\* never one closing an inner sub-block, and the sabos branch is inserted
\* immediately before that line.
C5_OutermostClosingLine ==
    (returned /\ call.fn = "patch_alloc_mod" /\ HasBlock(call.content)) =>
        LET closing == LineOf(call.content, CloseAt(call.content))
        IN  /\ alloc_idx = closing
            /\ BranchInsertedBefore(closing)

\* patch_alloc_mod has returned on a block with a nested sub-block.
C5_Witness ==
    /\ returned /\ call.fn = "patch_alloc_mod"
    /\ HasNestedBlock(call.content)
    /\ ret # call.content

\* The sum of BraceDelta over the lines a..b (0-based) of lines.
RECURSIVE DepthOver(_, _, _)
DepthOver(lines, a, b) ==
    IF a > b THEN 0 ELSE BraceDelta(lines[b + 1]) + DepthOver(lines, a, b - 1)

\* The 0-based number of the first line containing "cfg_select!", or -1.
OpenerLine(lines) ==
    IF MatchingLines(lines, "cfg_select!") = {} THEN -1
    ELSE Least(MatchingLines(lines, "cfg_select!")) - 1

\* C9 as claimed: the depth counter is updated only by the lines after the
\* line of the opening token, so the detected closing line is always
\* strictly after that line.
C9_ClosingLineAfterOpener ==
    (returned /\ call.fn = "patch_alloc_mod") =>
        LET lines  == Split(call.content)
            opener == OpenerLine(lines)
            ends   == {i \in (opener + 1)..(Len(lines) - 1) :
                          DepthOver(lines, opener + 1, i) <= 0}
        IN  opener >= 0 =>
                /\ alloc_idx >= 0 => alloc_idx > opener
                /\ alloc_idx = IF ends = {} THEN -1 ELSE Least(ends)

\* C9 as amended: the depth counter starts at zero at the line of the
\* opening token and is updated by that line and by every line after it;
\* the detected closing line is the first line, from the token's line on, at
\* which the depth is <= 0. It is never before the token's line, and it is
\* the token's line itself exactly when that line has no more "{" than "}".
C9_ClosingLineFromOpener ==
    (returned /\ call.fn = "patch_alloc_mod") =>
        LET lines  == Split(call.content)
            opener == OpenerLine(lines)
            ends   == {i \in opener..(Len(lines) - 1) :
                          DepthOver(lines, opener, i) <= 0}
        IN  IF opener < 0 THEN alloc_idx = -1
            ELSE /\ alloc_idx = IF ends = {} THEN -1 ELSE Least(ends)
                 /\ alloc_idx >= 0 => alloc_idx >= opener
                 /\ (alloc_idx = opener) <=> (BraceDelta(lines[opener + 1]) <= 0)

\* patch_alloc_mod has returned having detected the token's own line, which
\* is not the first line of the text.
C9_Witness ==
    /\ returned /\ call.fn = "patch_alloc_mod"
    /\ OpenerLine(Split(call.content)) > 0
    /\ alloc_idx = OpenerLine(Split(call.content))

(***************************************************************************)
(* Properties of patch_thread_local_mod.                                   *)
(***************************************************************************)

\* The 1-based indices of the lines equal to line.
EqualLines(lines, line) == {i \in 1..Len(lines) : lines[i] = line}

\* C10: for content with both a line equal to 8 spaces + target_os =
\* "vexos", and a line equal to 12 spaces + target_os = "vexos", in either
\* order, patch_thread_local_mod inserts the 8-space sabos line right after
\* the first 8-space vexos line and the 12-space sabos line right after the
\* first 12-space vexos line, and nothing else.
C10_EachBlockGetsItsLine ==
    (returned /\ call.fn = "patch_thread_local_mod") =>
        LET lines == Split(call.content)
            at8   == EqualLines(lines, Vexos8)
            at12  == EqualLines(lines, Vexos12)
        IN  (at8 # {} /\ at12 # {}) =>
                LET a == Least(at8)
                    b == Least(at12)
                IN  Split(ret) =
                        IF a < b
                        THEN InsertedAt(InsertedAt(lines, b, Sabos12), a, Sabos8)
                        ELSE InsertedAt(InsertedAt(lines, a, Sabos8), b, Sabos12)

(***************************************************************************)
(* check-syscall-numbers.py: the regular expressions.                      *)
(***************************************************************************)

Digits == {"0", "1", "2", "3", "4", "5", "6", "7", "8", "9"}

\* The characters \w matches, among those of the texts modelled.
WordChars ==
    Digits \cup {"_"}
    \cup {"A", "B", "C", "D", "E", "F", "G", "H", "I", "J", "K", "L", "M",
          "N", "O", "P", "Q", "R", "S", "T", "U", "V", "W", "X", "Y", "Z"}
    \cup {"a", "b", "c", "d", "e", "f", "g", "h", "i", "j", "k", "l", "m",
          "n", "o", "p", "q", "r", "s", "t", "u", "v", "w", "x", "y", "z"}

\* The characters \s matches inside one line.
SpaceChars == {" ", "\t"}

\* The first position >= p of s whose character is not in class: where a
\* greedy class* that starts at p ends.
RECURSIVE SkipClass(_, _, _)
SkipClass(s, p, class) ==
    IF p > Len(s) THEN p
    ELSE IF CharAt(s, p) \in class THEN SkipClass(s, p + 1, class)
    ELSE p

\* Whether the literal lit stands at position p of s.
LitAt(s, p, lit) == p + Len(lit) - 1 <= Len(s) /\ SubSeq(s, p, p + Len(lit) - 1) = lit

NoMatch == [ok |-> FALSE, name |-> "", number |-> ""]

\* A match of  prefix(SYS_\w+):\s*u64\s*=\s*(\d+)\s*;  that starts at
\* position p of s. Each class is followed by a character outside it, so the
\* greedy match is the only one.
MatchDeclAt(s, p, prefix) ==
    LET n0 == p + Len(prefix)
        n1 == SkipClass(s, n0 + 4, WordChars)
        t0 == SkipClass(s, n1 + 1, SpaceChars)
        e0 == SkipClass(s, t0 + 3, SpaceChars)
        d0 == SkipClass(s, e0 + 1, SpaceChars)
        d1 == SkipClass(s, d0, Digits)
        c0 == SkipClass(s, d1, SpaceChars)
    IN  IF /\ LitAt(s, p, prefix)
           /\ LitAt(s, n0, "SYS_") /\ n1 > n0 + 4
           /\ LitAt(s, n1, ":")
           /\ LitAt(s, t0, "u64")
           /\ LitAt(s, e0, "=")
           /\ d1 > d0
           /\ LitAt(s, c0, ";")
        THEN [ok |-> TRUE, name |-> SubSeq(s, n0, n1 - 1), number |-> SubSeq(s, d0, d1 - 1)]
        ELSE NoMatch

\* A match of  in\("rax"\)\s+(\d+)u64\s*,\s*//\s*(SYS_\w+)  that starts at
\* position p of s.
MatchAsmAt(s, p) ==
    LET s0 == p + Len("in(\"rax\")")
        d0 == SkipClass(s, s0, SpaceChars)
        d1 == SkipClass(s, d0, Digits)
        k0 == SkipClass(s, d1 + 3, SpaceChars)
        l0 == SkipClass(s, k0 + 1, SpaceChars)
        n0 == SkipClass(s, l0 + 2, SpaceChars)
        n1 == SkipClass(s, n0 + 4, WordChars)
    IN  IF /\ LitAt(s, p, "in(\"rax\")")
           /\ d0 > s0
           /\ d1 > d0
           /\ LitAt(s, d1, "u64")
           /\ LitAt(s, k0, ",")
           /\ LitAt(s, l0, "//")
           /\ LitAt(s, n0, "SYS_") /\ n1 > n0 + 4
        THEN [ok |-> TRUE, name |-> SubSeq(s, n0, n1 - 1), number |-> SubSeq(s, d0, d1 - 1)]
        ELSE NoMatch

\* RE_CANONICAL.search(line): the match at the leftmost position that has one.
RECURSIVE SearchCanonicalFrom(_, _)
SearchCanonicalFrom(line, p) ==
    IF p > Len(line) THEN NoMatch
    ELSE IF MatchDeclAt(line, p, "pub const ").ok THEN MatchDeclAt(line, p, "pub const ")
    ELSE SearchCanonicalFrom(line, p + 1)

RE_CANONICAL(line) == SearchCanonicalFrom(line, 1)

\* RE_PAL_CONST.search(line)
RECURSIVE SearchPalConstFrom(_, _)
SearchPalConstFrom(line, p) ==
    IF p > Len(line) THEN NoMatch
    ELSE IF MatchDeclAt(line, p, "const ").ok THEN MatchDeclAt(line, p, "const ")
    ELSE SearchPalConstFrom(line, p + 1)

RE_PAL_CONST(line) == SearchPalConstFrom(line, 1)

\* RE_PAL_ASM.search(line)
RECURSIVE SearchPalAsmFrom(_, _)
SearchPalAsmFrom(line, p) ==
    IF p > Len(line) THEN NoMatch
    ELSE IF MatchAsmAt(line, p).ok THEN MatchAsmAt(line, p)
    ELSE SearchPalAsmFrom(line, p + 1)

RE_PAL_ASM(line) == SearchPalAsmFrom(line, 1)

DigitValue(c) ==
    CASE c = "0" -> 0 [] c = "1" -> 1 [] c = "2" -> 2 [] c = "3" -> 3 [] c = "4" -> 4
      [] c = "5" -> 5 [] c = "6" -> 6 [] c = "7" -> 7 [] c = "8" -> 8 [] c = "9" -> 9

\* int(digits) for a non-empty string of decimal digits.
RECURSIVE int(_)
int(digits) ==
    IF Len(digits) = 1 THEN DigitValue(digits)
    ELSE 10 * int(SubSeq(digits, 1, Len(digits) - 1))
         + DigitValue(CharAt(digits, Len(digits)))

\* text.splitlines(), for texts whose only line breaks are "\n".
splitlines(text) ==
    IF text = "" THEN <<>>
    ELSE IF CharAt(text, Len(text)) = "\n" THEN Split(SubSeq(text, 1, Len(text) - 1))
    ELSE Split(text)

(***************************************************************************)
(* check-syscall-numbers.py: load_canonical, check_pal_files, main.        *)
(***************************************************************************)

\* The for loop of load_canonical, from line i (1-based) on.
RECURSIVE LoadLoop(_, _, _)
LoadLoop(lines, i, dict) ==
    IF i > Len(lines) THEN dict
    ELSE LET m == RE_CANONICAL(lines[i])
         IN  LoadLoop(lines, i + 1,
                      IF m.ok THEN (m.name :> int(m.number)) @@ dict ELSE dict)

\* load_canonical() when CANONICAL_FILE exists.
load_canonical(text) == LoadLoop(splitlines(text), 1, <<>>)

\* A mutant of MatchErrors: the elif branch for unknown names is missing.
MatchErrorsKnownOnly(m, rel_path, i, suffix, canonical_map) ==
    IF ~m.ok THEN <<>>
    ELSE IF m.name \in DOMAIN canonical_map /\ canonical_map[m.name] # int(m.number)
    THEN << [path |-> rel_path, line |-> i, name |-> m.name, found |-> int(m.number),
             suffix |-> suffix, detail |-> "expected",
             expected |-> canonical_map[m.name]] >>
    ELSE <<>>

\* The entries one match adds to errors.
MatchErrors(m, rel_path, i, suffix, canonical_map) ==
    IF ~m.ok THEN <<>>
    ELSE IF m.name \in DOMAIN canonical_map /\ canonical_map[m.name] # int(m.number)
    THEN << [path |-> rel_path, line |-> i, name |-> m.name, found |-> int(m.number),
             suffix |-> suffix, detail |-> "expected",
             expected |-> canonical_map[m.name]] >>
    ELSE IF m.name \notin DOMAIN canonical_map
    THEN << [path |-> rel_path, line |-> i, name |-> m.name, found |-> int(m.number),
             suffix |-> suffix, detail |-> "not found in canonical source",
             expected |-> -1] >>
    ELSE <<>>

\* The inner for loop of check_pal_files over one file's lines, from line i
\* (1-based, as enumerate(..., start=1) counts) on.
RECURSIVE CheckLines(_, _, _, _, _)
CheckLines(lines, i, rel_path, canonical_map, errs) ==
    IF i > Len(lines) THEN errs
    ELSE CheckLines(lines, i + 1, rel_path, canonical_map,
                    errs \o MatchErrors(RE_PAL_CONST(lines[i]), rel_path, i, "",
                                        canonical_map)
                         \o MatchErrors(RE_PAL_ASM(lines[i]), rel_path, i, "u64",
                                        canonical_map))

\* The names a directory listing can hold, in sorted() order.
PalNames == <<"alloc.rs", "fs.rs", "notes.txt">>

\* name matches "*.rs"
IsRsName(name) == Len(name) >= 3 /\ SubSeq(name, Len(name) - 2, Len(name)) = ".rs"

\* sorted(PAL_DIR.glob("*.rs"))
SortedRsPaths(entries) ==
    SelectSeq(PalNames, LAMBDA name : name \in DOMAIN entries /\ IsRsName(name))

\* A mutant of ExitCode: the run always ends with sys.exit(0).
ExitCodeAlwaysZero(errs) == 0

\* The exit code main ends with, given the list check_pal_files returned.
ExitCode(errs) == IF Len(errs) > 0 THEN 1 ELSE 0

\* The texts CANONICAL_FILE may hold.
CanonicalTexts ==
    { "pub const SYS_READ: u64 = 0;\npub const SYS_WRITE: u64 = 1;\n",
      "pub const SYS_READ: u64 = 0;\npub const SYS_READ:u64=3 ;\n",
      "// numbers\nconst SYS_WRITE: u64 = 1;\npub const SYS_EXIT : u64 = 60;\n",
      "pub const SYS_WRITE: u64 = 2;",
      "" }

\* The texts a file of PAL_DIR may hold.
PalTexts ==
    { "const SYS_WRITE: u64 = 2;\n",
      "const SYS_WRITE: u64 = 1;\n",
      "const SYS_FOO: u64 = 9;\n",
      "    in(\"rax\") 1u64, // SYS_WRITE\n",
      "    in(\"rax\") 0u64, // SYS_WRITE\n",
      "const SYS_READ: u64 = 00; in(\"rax\")\t5u64 ,//SYS_NOPE\n",
      "const SYS_READ: u64 = 0; const SYS_WRITE: u64 = 7;\n",
      "fn f() {}\npub const SYS_WRITE:u64=2;\n\nin(\"rax\") 3u64, // SYS_READ",
      "" }

\* The listings PAL_DIR may have.
PalListings ==
    { f \in UNION {[D -> PalTexts] : D \in SUBSET {"alloc.rs", "fs.rs", "notes.txt"}} :
          "notes.txt" \in DOMAIN f => f["notes.txt"] = "const SYS_WRITE: u64 = 2;\n" }

InitCheck ==
    /\ canonical_file \in
           {[present |-> FALSE, content |-> ""]}
           \cup [present : {TRUE}, content : CanonicalTexts]
    /\ pal_dir \in
           {[present |-> FALSE, entries |-> <<>>]}
           \cup [present : {TRUE}, entries : PalListings]
    /\ cpc = "load" /\ canonical = <<>> /\ errors = <<>> /\ fidx = 1
    /\ stdout = <<>> /\ check_exit = -1
    /\ PatchIdle /\ CallIdle

\* load_canonical, CANONICAL_FILE missing: the message and sys.exit(2).
LoadCanonicalMissing ==
    /\ cpc = "load" /\ ~canonical_file.present
    /\ check_exit' = 2 /\ cpc' = "exit"
    /\ UNCHANGED <<canonical_file, pal_dir, canonical, errors, fidx, stdout,
                   patchVars, callVars>>

\* load_canonical returns the dict; main prints its size.
LoadCanonical ==
    /\ cpc = "load" /\ canonical_file.present
    /\ canonical' = load_canonical(canonical_file.content)
    /\ stdout' = Append(stdout, [text |-> "Loaded",
                                 n |-> Cardinality(DOMAIN canonical')])
    /\ cpc' = "check"
    /\ UNCHANGED <<canonical_file, pal_dir, errors, fidx, check_exit,
                   patchVars, callVars>>

\* check_pal_files, PAL_DIR missing: the empty list is returned at once.
CheckPalDirMissing ==
    /\ cpc = "check" /\ ~pal_dir.present
    /\ cpc' = "report"
    /\ UNCHANGED <<canonical_file, pal_dir, canonical, errors, fidx, stdout,
                   check_exit, patchVars, callVars>>

\* check_pal_files, one iteration of the loop over the sorted *.rs paths.
CheckPalFile ==
    /\ cpc = "check" /\ pal_dir.present
    /\ fidx <= Len(SortedRsPaths(pal_dir.entries))
    /\ LET path == SortedRsPaths(pal_dir.entries)[fidx]
       IN  errors' = CheckLines(splitlines(pal_dir.entries[path]), 1, path,
                                canonical, errors)
    /\ fidx' = fidx + 1
    /\ UNCHANGED <<canonical_file, pal_dir, cpc, canonical, stdout, check_exit,
                   patchVars, callVars>>

\* check_pal_files returns errors after the last path.
CheckPalReturn ==
    /\ cpc = "check" /\ pal_dir.present
    /\ fidx > Len(SortedRsPaths(pal_dir.entries))
    /\ cpc' = "report"
    /\ UNCHANGED <<canonical_file, pal_dir, canonical, errors, fidx, stdout,
                   check_exit, patchVars, callVars>>

\* main prints FAILED with the list, or PASSED, and exits.
Report ==
    /\ cpc = "report"
    /\ stdout' = Append(stdout, [text |-> IF Len(errors) > 0 THEN "FAILED" ELSE "PASSED",
                                 n |-> Len(errors)])
    /\ check_exit' = ExitCode(errors)
    /\ cpc' = "exit"
    /\ UNCHANGED <<canonical_file, pal_dir, canonical, errors, fidx,
                   patchVars, callVars>>

NextCheck ==
    \/ LoadCanonicalMissing
    \/ LoadCanonical
    \/ CheckPalDirMissing
    \/ CheckPalFile
    \/ CheckPalReturn
    \/ Report

SpecCheck == InitCheck /\ [][NextCheck]_vars

(***************************************************************************)
(* Properties of the checker.                                              *)
(***************************************************************************)

\* The indices of the entries of errors for line i of path and the pattern
\* with the given suffix ("" the const pattern, "u64" the asm pattern).
EntriesFor(path, i, suffix) ==
    {j \in 1..Len(errors) :
        errors[j].path = path /\ errors[j].line = i /\ errors[j].suffix = suffix}

\* What check_pal_files is to report for the match m of one pattern on line
\* i of path: one entry for a known name with another value, one entry for
\* an unknown name, none for a known name with the same value or no match.
ReportedAsClaimed(m, path, i, suffix) ==
    LET got == EntriesFor(path, i, suffix)
    IN  IF m.ok /\ m.name \in DOMAIN canonical /\ canonical[m.name] # int(m.number)
        THEN /\ Cardinality(got) = 1
             /\ \A j \in got :
                    /\ errors[j].name = m.name /\ errors[j].found = int(m.number)
                    /\ errors[j].detail = "expected"
                    /\ errors[j].expected = canonical[m.name]
        ELSE IF m.ok /\ m.name \notin DOMAIN canonical
        THEN /\ Cardinality(got) = 1
             /\ \A j \in got :
                    /\ errors[j].name = m.name /\ errors[j].found = int(m.number)
                    /\ errors[j].detail = "not found in canonical source"
        ELSE got = {}

\* Every position of line at which the const pattern, or the asm pattern,
\* matches (what re.finditer would go through).
ConstMatches(line) == {p \in 1..Len(line) : MatchDeclAt(line, p, "const ").ok}
AsmMatches(line)   == {p \in 1..Len(line) : MatchAsmAt(line, p).ok}

\* The match m, on line i of path, is of a name unknown to the canonical map
\* or known with another value, and errors has an entry for it.
BadMatchReported(m, path, i, suffix) ==
    (m.name \notin DOMAIN canonical \/ canonical[m.name] # int(m.number)) =>
        \E j \in EntriesFor(path, i, suffix) :
            errors[j].name = m.name /\ errors[j].found = int(m.number)

\* C6 as claimed: for every line of every scanned file and every match of
\* either pattern on it, the list check_pal_files returns has an entry when
\* the name is in the canonical map with a different value or is absent
\* from the map.
C6_EveryMatchReported ==
    (cpc \in {"report", "exit"} /\ canonical_file.present /\ pal_dir.present) =>
        LET paths == SortedRsPaths(pal_dir.entries)
            Lines(path) == splitlines(pal_dir.entries[path])
        IN  \A k \in 1..Len(paths) :
                \A i \in 1..Len(Lines(paths[k])) :
                    /\ \A p \in ConstMatches(Lines(paths[k])[i]) :
                           BadMatchReported(MatchDeclAt(Lines(paths[k])[i], p, "const "),
                                            paths[k], i, "")
                    /\ \A p \in AsmMatches(Lines(paths[k])[i]) :
                           BadMatchReported(MatchAsmAt(Lines(paths[k])[i], p),
                                            paths[k], i, "u64")

\* C6 as amended: for every line of every scanned file and the leftmost match
\* of each of the two patterns on it (the one re.search returns; further
\* matches of the same pattern on the line are not examined), the list
\* check_pal_files returns has exactly one entry when the name is in the
\* canonical map with a different value or is absent from the map, and no
\* entry when the name is in the map with an equal value; the list has no
\* other entries.
C6_OneEntryPerSearchedMatch ==
    (cpc \in {"report", "exit"} /\ canonical_file.present /\ pal_dir.present) =>
        LET paths == SortedRsPaths(pal_dir.entries)
            Lines(path) == splitlines(pal_dir.entries[path])
        IN  /\ \A k \in 1..Len(paths) :
                   \A i \in 1..Len(Lines(paths[k])) :
                       /\ ReportedAsClaimed(RE_PAL_CONST(Lines(paths[k])[i]),
                                            paths[k], i, "")
                       /\ ReportedAsClaimed(RE_PAL_ASM(Lines(paths[k])[i]),
                                            paths[k], i, "u64")
            /\ \A j \in 1..Len(errors) :
                   \E k \in 1..Len(paths) :
                       /\ errors[j].path = paths[k]
                       /\ errors[j].line \in 1..Len(Lines(paths[k]))
                       /\ errors[j].suffix \in {"", "u64"}

\* The run of the spec's example: canonical {SYS_READ: 0, SYS_WRITE: 1}, one
\* file with "const SYS_WRITE: u64 = 2;" and one with "const SYS_FOO: u64 =
\* 9;" give one value mismatch (found 2, expected 1) and one unknown name.
C6_Witness ==
    /\ cpc = "exit"
    /\ canonical = ("SYS_READ" :> 0) @@ ("SYS_WRITE" :> 1)
    /\ errors = << [path |-> "alloc.rs", line |-> 1, name |-> "SYS_WRITE", found |-> 2,
                    suffix |-> "", detail |-> "expected", expected |-> 1],
                   [path |-> "fs.rs", line |-> 1, name |-> "SYS_FOO", found |-> 9,
                    suffix |-> "", detail |-> "not found in canonical source",
                    expected |-> -1] >>

\* C7: the run's exit code is 2 when the canonical file does not exist, and
\* then no file was scanned and no list produced; otherwise 0 when the
\* dependent directory does not exist or the list is empty; otherwise 1. No
\* other exit code occurs.
C7_ExitCode ==
    /\ cpc # "exit" => check_exit = -1
    /\ cpc = "exit" =>
           /\ check_exit = IF ~canonical_file.present THEN 2
                           ELSE IF ~pal_dir.present \/ errors = <<>> THEN 0
                           ELSE 1
           /\ ~canonical_file.present => (errors = <<>> /\ fidx = 1 /\ stdout = <<>>)
           /\ (canonical_file.present /\ ~pal_dir.present) => errors = <<>>

\* A run has ended with exit code 1 on a directory with a mismatching file.
C7_Witness ==
    /\ cpc = "exit" /\ check_exit = 1
    /\ canonical_file.present /\ pal_dir.present /\ Len(errors) > 0

====
